---- MODULE Spec2Model ----
(***************************************************************************)
(* A model of server/extract_docs.py: the best-effort extractor of PDF and *)
(* DOCX text.  Text is a sequence of code points, bytes are a sequence of  *)
(* integers in 0..255, an XML tag is a sequence of one-character strings.  *)
(* A call's outcome is a record: Ok(value) or Raise(exception name).       *)
(***************************************************************************)
EXTENDS Integers, Sequences, FiniteSets, TLC

(***************************************************************************)
(* Bounds of the checked inputs.                                           *)
(***************************************************************************)
MaxStdinLen == 5      \* longest enumerated standard-input text
MaxElems    == 3      \* most elements of an enumerated word/document.xml
MaxRunLen   == 7      \* longest printable run of an enumerated segment
MaxSegs     == 2      \* most segments of an enumerated PDF payload
MaxPages    == 3      \* most pages the PDF reader reports

(***************************************************************************)
(* Constants of the program.                                               *)
(***************************************************************************)
MinRunLen    == 6     \* len(run) >= 6
MaxFragments == 400   \* printable[:400]
PrintableLo  == 32    \* 32 <= byte
PrintableHi  == 126   \* byte <= 126

DOCX_MIME == "application/vnd.openxmlformats-officedocument.wordprocessingml.document"
PDF_MIME  == "application/pdf"
DOCUMENT_XML == "word/document.xml"

Ok(v)    == [ok |-> TRUE, value |-> v, exc |-> ""]
Raise(e) == [ok |-> FALSE, value |-> <<>>, exc |-> e]

(***************************************************************************)
(* Python's str and list primitives.                                       *)
(***************************************************************************)
\* str.isspace() of one character (the whitespace below U+0100)
IsSpace(c) == c \in (9..13) \cup (28..32) \cup {133, 160}

\* str.strip(): leading and trailing whitespace removed
Strip(s) ==
  IF \A k \in 1..Len(s) : IsSpace(s[k]) THEN <<>>
  ELSE LET first == CHOOSE k \in 1..Len(s) :
                      ~IsSpace(s[k]) /\ \A j \in 1..(k - 1) : IsSpace(s[j])
           last  == CHOOSE k \in 1..Len(s) :
                      ~IsSpace(s[k]) /\ \A j \in (k + 1)..Len(s) : IsSpace(s[j])
       IN  SubSeq(s, first, last)

\* the concatenation of parts[lo..hi]
RECURSIVE ConcatRange(_, _, _)
ConcatRange(parts, lo, hi) ==
  IF lo > hi THEN <<>>
  ELSE IF lo = hi THEN parts[lo]
  ELSE LET mid == (lo + hi) \div 2
       IN  ConcatRange(parts, lo, mid) \o ConcatRange(parts, mid + 1, hi)

\* sep.join(parts)
Join(parts, sep) ==
  ConcatRange([k \in 1..(2 * Len(parts) - 1) |->
                 IF k % 2 = 1 THEN parts[(k + 1) \div 2] ELSE sep],
              1, 2 * Len(parts) - 1)

\* list[:n]
Take(list, n) == SubSeq(list, 1, IF Len(list) < n THEN Len(list) ELSE n)

\* str.endswith(suffix)
EndsWith(s, suffix) ==
  /\ Len(s) >= Len(suffix)
  /\ SubSeq(s, Len(s) - Len(suffix) + 1, Len(s)) = suffix

(***************************************************************************)
(* base64.b64decode(payload), validate=False, and read_stdin.              *)
(***************************************************************************)
\* the value of a character of the base64 alphabet, 64 for any other
B64Value(c) ==
  IF c \in 65..90 THEN c - 65
  ELSE IF c \in 97..122 THEN c - 97 + 26
  ELSE IF c \in 48..57 THEN c - 48 + 52
  ELSE IF c = 43 THEN 62
  ELSE IF c = 47 THEN 63
  ELSE 64

B64Start == [qp |-> 0, pads |-> 0, left |-> 0, out |-> <<>>, stop |-> FALSE]

\* binascii.a2b_base64, non-strict mode: one input character
B64Step(st, c) ==
  IF st.stop THEN st
  ELSE IF c = 61 THEN
    IF st.qp >= 2
    THEN [st EXCEPT !.pads = @ + 1, !.stop = (st.qp + st.pads + 1 >= 4)]
    ELSE st
  ELSE IF B64Value(c) >= 64 THEN st
  ELSE LET v == B64Value(c) IN
    CASE st.qp = 0 -> [st EXCEPT !.pads = 0, !.qp = 1, !.left = v]
      [] st.qp = 1 -> [st EXCEPT !.pads = 0, !.qp = 2, !.left = v % 16,
                        !.out = Append(@, (st.left * 4 + v \div 16) % 256)]
      [] st.qp = 2 -> [st EXCEPT !.pads = 0, !.qp = 3, !.left = v % 4,
                        !.out = Append(@, (st.left * 16 + v \div 4) % 256)]
      [] OTHER     -> [st EXCEPT !.pads = 0, !.qp = 0, !.left = 0,
                        !.out = Append(@, (st.left * 64 + v) % 256)]

RECURSIVE B64Scan(_, _, _)
B64Scan(s, k, st) ==
  IF k > Len(s) THEN st ELSE B64Scan(s, k + 1, B64Step(st, s[k]))

\* binascii.a2b_base64(s)
a2b_base64(s) ==
  LET st == B64Scan(s, 1, B64Start)
  IN  IF st.stop \/ st.qp = 0 THEN Ok(st.out) ELSE Raise("binascii.Error")

\* base64.b64decode(s) of a str: s.encode('ascii'), then a2b_base64
b64decode(s) ==
  IF \E k \in 1..Len(s) : s[k] > 127 THEN Raise("ValueError")
  ELSE a2b_base64(s)

\* read_stdin(), of the text sys.stdin.read() returns
read_stdin(stdinText) ==
  LET payload == Strip(stdinText)
  IN  IF payload = <<>> THEN Ok(<<>>)
      ELSE LET r == b64decode(payload)
           IN  IF r.ok THEN r ELSE Ok(<<>>)

(***************************************************************************)
(* zipfile.ZipFile over the payload.  A payload is either raw bytes or the *)
(* bytes of a ZIP archive, given by the entries zipfile finds in it; an    *)
(* entry is [name, content], the content an XML text given by its tokens.  *)
(***************************************************************************)
BytesData(b) == [kind |-> "bytes", bytes |-> b, entries |-> {}]
ZipData(es)  == [kind |-> "zip", bytes |-> <<>>, entries |-> es]

\* `not data`
IsEmptyData(data) == data.kind = "bytes" /\ data.bytes = <<>>

\* the 22 bytes of an archive with no entries: an end-of-central-directory
\* record, PK\x05\x06 and eighteen zero bytes
EmptyZipBytes == [k \in 1..22 |-> IF k = 1 THEN 80 ELSE IF k = 2 THEN 75
                                  ELSE IF k = 3 THEN 5 ELSE IF k = 4 THEN 6 ELSE 0]

\* zipfile.ZipFile(io.BytesIO(data)): the archive's entries, or BadZipFile
\* for bytes that do not end in an end-of-central-directory record
ZipFile(data) ==
  IF data.kind = "zip" THEN Ok(data.entries)
  ELSE IF data.bytes = EmptyZipBytes THEN Ok({})
  ELSE Raise("BadZipFile")

\* archive.open(name).read(): the entry's content, or KeyError
ZipRead(entries, name) ==
  IF \E e \in entries : e.name = name
  THEN Ok((CHOOSE e \in entries : e.name = name).content)
  ELSE Raise("KeyError")

(***************************************************************************)
(* xml.etree.ElementTree: fromstring and Element.iter.  An XML text is     *)
(* [nsmap, tokens]: the namespace declarations of its root (a set of       *)
(* [prefix, uri], prefix "" the default namespace) and its start tags      *)
(* (prefix, local name, the character data that follows the tag) and end   *)
(* tags, in text order.                                                    *)
(***************************************************************************)
OpenTag(prefix, local, text) ==
  [op |-> "open", prefix |-> prefix, local |-> local, text |-> text]
CloseTag == [op |-> "close", prefix |-> "", local |-> <<>>, text |-> <<>>]

HasPrefix(nsmap, prefix) == \E b \in nsmap : b.prefix = prefix
UriOf(nsmap, prefix) == (CHOOSE b \in nsmap : b.prefix = prefix).uri

\* Element.tag: "{uri}local" for a name in a namespace, "local" otherwise
ClarkTag(nsmap, prefix, local) ==
  IF HasPrefix(nsmap, prefix)
  THEN <<"{">> \o UriOf(nsmap, prefix) \o <<"}">> \o local
  ELSE local

TreeStart == [nodes |-> <<>>, stack |-> <<>>, root |-> 0, err |-> ""]

\* the parser's tree builder: one token
ParseStep(nsmap, st, tok) ==
  IF st.err # "" THEN st
  ELSE IF tok.op = "open" THEN
    IF st.stack = <<>> /\ st.root # 0
    THEN [st EXCEPT !.err = "junk after document element"]
    ELSE IF tok.prefix # "" /\ ~HasPrefix(nsmap, tok.prefix)
    THEN [st EXCEPT !.err = "unbound prefix"]
    ELSE LET n    == Len(st.nodes) + 1
             node == [tag |-> ClarkTag(nsmap, tok.prefix, tok.local),
                      text |-> tok.text, children |-> <<>>]
             linked == IF st.stack = <<>> THEN st.nodes
                       ELSE [st.nodes EXCEPT ![st.stack[Len(st.stack)]].children =
                                                     Append(@, n)]
         IN  [st EXCEPT !.nodes = Append(linked, node),
                        !.stack = Append(@, n),
                        !.root = IF st.stack = <<>> THEN n ELSE @]
  ELSE IF st.stack = <<>> THEN [st EXCEPT !.err = "mismatched tag"]
  ELSE [st EXCEPT !.stack = SubSeq(@, 1, Len(@) - 1)]

RECURSIVE ParseTokens(_, _, _, _)
ParseTokens(nsmap, tokens, k, st) ==
  IF k > Len(tokens) THEN st
  ELSE ParseTokens(nsmap, tokens, k + 1, ParseStep(nsmap, st, tokens[k]))

\* ET.fromstring(xml_bytes): the tree [nodes, root], or ParseError
fromstring(xml) ==
  LET st == ParseTokens(xml.nsmap, xml.tokens, 1, TreeStart)
  IN  IF st.err # "" \/ st.root = 0 \/ st.stack # <<>>
      THEN Raise("ParseError")
      ELSE Ok([nodes |-> st.nodes, root |-> st.root])

\* element.iter(): the element, then each child's iter() in turn
RECURSIVE IterFrom(_, _)
IterFrom(nodes, n) ==
  LET kids == nodes[n].children
  IN  <<n>> \o ConcatRange([k \in 1..Len(kids) |-> IterFrom(nodes, kids[k])],
                            1, Len(kids))

\* a slip: `for element in root`, which visits the root's children only
IterRootChildren(tree) ==
  LET kids == tree.nodes[tree.root].children
  IN  [k \in 1..Len(kids) |-> tree.nodes[kids[k]]]

\* root.iter(), as the elements
Iter(tree) ==
  LET order == IterFrom(tree.nodes, tree.root)
  IN  [k \in 1..Len(order) |-> tree.nodes[order[k]]]

(***************************************************************************)
(* extract_docx                                                            *)
(***************************************************************************)
\* element.tag.endswith('}t') and element.text
IsTextNode(element) ==
  EndsWith(element.tag, <<"}", "t">>) /\ element.text # <<>>

\* text_nodes after the loop over root.iter()
TextNodes(tree) ==
  LET kept == SelectSeq(Iter(tree), IsTextNode)
  IN  [k \in 1..Len(kept) |-> kept[k].text]

\* the body of extract_docx's try block
DocxTry(data) ==
  LET archive == ZipFile(data) IN
  IF ~archive.ok THEN archive
  ELSE LET xml_bytes == ZipRead(archive.value, DOCUMENT_XML) IN
  IF ~xml_bytes.ok THEN xml_bytes
  ELSE LET root == fromstring(xml_bytes.value) IN
  IF ~root.ok THEN root
  ELSE Ok(Strip(Join(TextNodes(root.value), <<32>>)))

\* a slip: `except zipfile.BadZipFile`, which lets the other exceptions out
DocxCatchBadZipOnly(outcome) ==
  IF outcome.ok \/ outcome.exc # "BadZipFile" THEN outcome ELSE Ok(<<>>)

\* try: ... except Exception: return ""
DocxCatch(outcome) == IF outcome.ok THEN outcome ELSE Ok(<<>>)

extract_docx(data) ==
  IF IsEmptyData(data) THEN Ok(<<>>) ELSE DocxCatch(DocxTry(data))

(***************************************************************************)
(* extract_pdf.  The PDF library is the environment: pypdf may be absent,  *)
(* PdfReader may raise, reader.pages may raise on reaching a page, and     *)
(* page.extract_text() returns text (empty for None) or raises.  A library *)
(* is [installed, reader, pages, broken]: pages the outcome of each page's *)
(* extract_text(), broken the page at which iterating reader.pages raises  *)
(* (0: none).                                                              *)
(***************************************************************************)
PdfLib(installed, reader, pages, broken) ==
  [installed |-> installed, reader |-> reader, pages |-> pages, broken |-> broken]

\* a slip: a failure to import or to construct read as a document of no pages
OpenReaderSwallows(lib) ==
  IF ~lib.installed \/ lib.reader # "ok" THEN Ok(<<>>) ELSE Ok(lib.pages)

\* from pypdf import PdfReader; reader = PdfReader(io.BytesIO(data))
OpenReader(lib) ==
  IF ~lib.installed THEN Raise("ModuleNotFoundError")
  ELSE IF lib.reader # "ok" THEN Raise("PdfReadError")
  ELSE Ok(lib.pages)

\* a slip: the handler appends "" for the page that failed
PageChunksEmptyOnFailure(chunks, extracted) ==
  Append(chunks, IF extracted.ok THEN extracted.value ELSE <<>>)

\* try: chunks.append(page.extract_text() or "") except Exception: continue
PageChunks(chunks, extracted) ==
  IF extracted.ok THEN Append(chunks, extracted.value) ELSE chunks

\* return '\n'.join(chunks).strip()
Tier1Result(chunks) == Strip(Join(chunks, <<10>>))

\* 32 <= byte <= 126
IsPrintable(byte) == PrintableLo <= byte /\ byte <= PrintableHi

\* a slip: len(run) > 6
FlushLongerThanMin(printable, run) ==
  IF Len(run) > MinRunLen THEN Append(printable, run) ELSE printable

\* if len(run) >= 6: printable.append(''.join(run))
Flush(printable, run) ==
  IF Len(run) >= MinRunLen THEN Append(printable, run) ELSE printable

\* one turn of `for byte in data`, on the locals printable and run
ByteStep(st, byte) ==
  IF IsPrintable(byte)
  THEN [st EXCEPT !.run = Append(@, byte)]
  ELSE [printable |-> Flush(st.printable, st.run), run |-> <<>>]

\* the turns of the loop for data[lo..hi], in order, from the locals st
\* (the test of `before` has TLC compute the turns for data[lo..mid] first)
RECURSIVE ScanRange(_, _, _, _)
ScanRange(d, lo, hi, st) ==
  IF lo > hi THEN st
  ELSE IF lo = hi THEN ByteStep(st, d[lo])
  ELSE LET mid    == (lo + hi) \div 2
           before == ScanRange(d, lo, mid, st)
       IN  IF Len(before.run) >= 0 THEN ScanRange(d, mid + 1, hi, before) ELSE before

\* printable = []; run = []; for byte in data: ...
ScanBytes(d) == ScanRange(d, 1, Len(d), [printable |-> <<>>, run |-> <<>>])

\* a slip: no cap on the fragments joined
Tier2ResultUncapped(printable) == Strip(Join(printable, <<32>>))

\* return ' '.join(printable[:400]).strip()
Tier2Result(printable) == Strip(Join(Take(printable, MaxFragments), <<32>>))

(***************************************************************************)
(* main: the dispatch on the MIME type and the JSON written.               *)
(***************************************************************************)
\* sys.argv[1] if len(sys.argv) > 1 else ''
MimeArg(args) == IF Len(args) > 1 THEN args[2] ELSE ""

\* a slip: every MIME type but the DOCX one taken for a PDF
RouteDefaultsToPdf(m) ==
  IF m = DOCX_MIME THEN "extract_docx" ELSE "extract_pdf"

\* the branch main takes
Route(m) ==
  IF m = DOCX_MIME THEN "extract_docx"
  ELSE IF m = PDF_MIME THEN "extract_pdf"
  ELSE "none"

HexDigit(n) == IF n < 10 THEN 48 + n ELSE 97 + n - 10

\* json's escape of one character, ensure_ascii=False
JsonEscape(c) ==
  CASE c = 34 -> <<92, 34>>
    [] c = 92 -> <<92, 92>>
    [] c = 8  -> <<92, 98>>
    [] c = 9  -> <<92, 116>>
    [] c = 10 -> <<92, 110>>
    [] c = 12 -> <<92, 102>>
    [] c = 13 -> <<92, 114>>
    [] c < 32 /\ c \notin {8, 9, 10, 12, 13} ->
         <<92, 117, 48, 48, HexDigit(c \div 16), HexDigit(c % 16)>>
    [] OTHER -> <<c>>

\* json.dumps({'text': text}, ensure_ascii=False)
JsonDumps(t) ==
  <<123, 34, 116, 101, 120, 116, 34, 58, 32, 34>>
    \o ConcatRange([k \in 1..Len(t) |-> JsonEscape(t[k])], 1, Len(t))
    \o <<34, 125>>

(***************************************************************************)
(* The interpreter compiles the whole file before it runs a statement of   *)
(* it.  Lines 1-89 are Python; line 90 is the text below, which must parse *)
(* as an expression statement: operands separated by binary operators,     *)
(* each operand after any number of unary operators.                       *)
(***************************************************************************)
TrailingLine ==
  <<"EOF", "&", "&", "chmod", "+", "x", "server", "/", "extract_docs", ".", "py">>

BinaryOps == {"&", "+", "-", "/", ".", "*", "|", "^", "%"}
UnaryOps  == {"+", "-", "~"}

\* want: whether the parser is before an operand
RECURSIVE ParsesFrom(_, _, _)
ParsesFrom(tokens, k, want) ==
  IF k > Len(tokens) THEN ~want
  ELSE IF want
       THEN IF tokens[k] \in UnaryOps THEN ParsesFrom(tokens, k + 1, TRUE)
            ELSE IF tokens[k] \in BinaryOps THEN FALSE
            ELSE ParsesFrom(tokens, k + 1, FALSE)
       ELSE IF tokens[k] \in BinaryOps THEN ParsesFrom(tokens, k + 1, TRUE)
            ELSE FALSE

\* compile() of the file: its last line decides
Compiles == ParsesFrom(TrailingLine, 1, TRUE)

(***************************************************************************)
(* State: the process's inputs (argv, stdin, the PDF library found at run  *)
(* time), the locals of main and extract_pdf, what was written to standard *)
(* output, and the outcome of the call under way.                          *)
(***************************************************************************)
VARIABLES
  pc,         \* the statement about to run
  argv,       \* sys.argv
  stdin,      \* the text sys.stdin.read() returns
  pypdf,      \* the PDF library of the runtime
  data,       \* the payload: main's data, the extractors' argument
  mime,       \* main's mime
  text,       \* main's text
  stdout,     \* the strings written to sys.stdout, in order
  exitcode,   \* the process's exit status, -1 while it runs
  calls,      \* the functions main has called, in order
  chunks,     \* extract_pdf's chunks
  page,       \* the pages of reader.pages consumed so far
  printable,  \* extract_pdf's printable
  run,        \* extract_pdf's run
  pos,        \* the bytes of data the Tier 2 loop has consumed
  result      \* the outcome of the call: Ok(value) or Raise(exception)

vars == <<pc, argv, stdin, pypdf, data, mime, text, stdout, exitcode, calls,
          chunks, page, printable, run, pos, result>>

processVars == <<argv, stdin, pypdf>>
mainVars    == <<mime, text, stdout, exitcode, calls>>
pdfVars     == <<chunks, page, printable, run, pos>>

NoLib     == PdfLib(FALSE, "ok", <<>>, 0)
BadReader == PdfLib(TRUE, "raises", <<>>, 0)

\* the values of the variables a run does not use
Idle(used) ==
  /\ "argv" \in used \/ argv = <<"extract_docs.py">>
  /\ "stdin" \in used \/ stdin = <<>>
  /\ "pypdf" \in used \/ pypdf = NoLib
  /\ "data" \in used \/ data = BytesData(<<>>)
  /\ mime = ""
  /\ text = <<>>
  /\ stdout = <<>>
  /\ exitcode = -1
  /\ calls = <<>>
  /\ chunks = <<>>
  /\ page = 0
  /\ printable = <<>>
  /\ run = <<>>
  /\ pos = 0
  /\ result = Ok(<<>>)

(***************************************************************************)
(* read_stdin called on every text of at most MaxStdinLen characters over  *)
(* 'Y', 'Q', '=', '!', ' ' and U+00E9.                                      *)
(***************************************************************************)
StdinAlphabet == {89, 81, 61, 33, 32, 233}
StdinInputs == UNION {[1..n -> StdinAlphabet] : n \in 0..MaxStdinLen}

InitDecode ==
  /\ pc = "read_stdin"
  /\ stdin \in StdinInputs
  /\ Idle({"stdin"})

CallReadStdin ==
  /\ pc = "read_stdin"
  /\ result' = read_stdin(stdin)
  /\ pc' = "returned"
  /\ UNCHANGED <<processVars, data, mainVars, pdfVars>>

NextDecode == CallReadStdin
SpecDecode == InitDecode /\ [][NextDecode]_vars

(***************************************************************************)
(* extract_docx called on raw bytes and on archives: with and without      *)
(* word/document.xml, its content every well-formed text of at most        *)
(* MaxElems elements and every ill-formed sequence of as many tags.        *)
(***************************************************************************)
NsW == <<"u", "r", "n", ":", "w">>
NsM == <<"u", "r", "n", ":", "m">>
PrefixedOnly == {[prefix |-> "w", uri |-> NsW], [prefix |-> "m", uri |-> NsM]}
NsMaps == {PrefixedOnly, PrefixedOnly \cup {[prefix |-> "", uri |-> NsW]}}

\* <w:t>, <m:t>, <t>, <w:rt>
ElemKinds == {<<"w", <<"t">>>>, <<"m", <<"t">>>>, <<"", <<"t">>>>,
              <<"w", <<"r", "t">>>>}

\* the text after the i-th start tag: none, a letter, the letter in spaces
TextOf(i, mode) ==
  IF mode = 0 THEN <<>> ELSE IF mode = 1 THEN <<96 + i>> ELSE <<32, 96 + i, 32>>

Opens(b, k) == Cardinality({j \in 1..k : b[j] = "open"})
Depth(b, k) == 2 * Opens(b, k) - k
TagOrders(n) == [1..n -> {"open", "close"}]
IsShape(b) ==
  /\ Len(b) > 0
  /\ Depth(b, Len(b)) = 0
  /\ \A k \in 1..(Len(b) - 1) : Depth(b, k) > 0

DocTokens(b, kinds, modes) ==
  [k \in 1..Len(b) |->
     IF b[k] = "open"
     THEN OpenTag(kinds[Opens(b, k)][1], kinds[Opens(b, k)][2],
                  TextOf(Opens(b, k), modes[Opens(b, k)]))
     ELSE CloseTag]

WellFormedXml ==
  UNION {{[nsmap |-> ns, tokens |-> DocTokens(b, kinds, modes)] :
            ns \in NsMaps, b \in {c \in TagOrders(2 * n) : IsShape(c)},
            kinds \in [1..n -> ElemKinds], modes \in [1..n -> 0..2]} :
         n \in 1..MaxElems}

MalformedXml ==
  UNION {{[nsmap |-> PrefixedOnly,
           tokens |-> DocTokens(b, [i \in 1..n |-> <<"w", <<"t">>>>],
                                [i \in 1..n |-> 1])] :
            b \in {c \in TagOrders(n) : ~IsShape(c)}} :
         n \in 0..(2 * MaxElems)}
  \cup {[nsmap |-> PrefixedOnly,
         tokens |-> <<OpenTag("x", <<"t">>, <<97>>), CloseTag>>]}

Entry(name, content) == [name |-> name, content |-> content]
Styles == Entry("word/styles.xml",
                [nsmap |-> PrefixedOnly,
                 tokens |-> <<OpenTag("w", <<"t">>, <<122>>), CloseTag>>])

DocxInputs ==
  {ZipData({Entry(DOCUMENT_XML, x)}) : x \in WellFormedXml \cup MalformedXml}
  \cup {ZipData({Entry(DOCUMENT_XML, x), Styles}) : x \in MalformedXml}
  \cup {ZipData({}), ZipData({Styles}),
        ZipData({Entry("document.xml", Styles.content)}),
        ZipData({Entry("word/Document.xml", Styles.content)})}
  \cup {BytesData(<<>>), BytesData(<<37, 80, 68, 70>>), BytesData(<<80, 75, 3, 4>>),
        BytesData(EmptyZipBytes)}

InitDocx ==
  /\ pc = "extract_docx"
  /\ data \in DocxInputs
  /\ Idle({"data"})

CallExtractDocx ==
  /\ pc = "extract_docx"
  /\ result' = extract_docx(data)
  /\ pc' = "returned"
  /\ UNCHANGED <<processVars, data, mainVars, pdfVars>>

NextDocx == CallExtractDocx
SpecDocx == InitDocx /\ [][NextDocx]_vars

(***************************************************************************)
(* extract_pdf: the guard, the reader, a step for each page, the Tier 1    *)
(* return, and the Tier 2 scan.                                            *)
(***************************************************************************)
\* if not data: return ""
PdfEmpty ==
  /\ pc = "extract_pdf"
  /\ IsEmptyData(data)
  /\ result' = Ok(<<>>)
  /\ pc' = "returned"
  /\ UNCHANGED <<processVars, data, mainVars, pdfVars>>

\* the import and PdfReader(...) inside the try; on any exception the
\* handler passes and the Tier 2 scan starts with printable = run = []
PdfOpenReader ==
  /\ pc = "extract_pdf"
  /\ ~IsEmptyData(data)
  /\ IF OpenReader(pypdf).ok
     THEN /\ pc' = "pages"
          /\ chunks' = <<>>
          /\ page' = 0
          /\ UNCHANGED <<printable, run, pos>>
     ELSE /\ pc' = "tier2"
          /\ printable' = <<>>
          /\ run' = <<>>
          /\ pos' = 0
          /\ UNCHANGED <<chunks, page>>
  /\ UNCHANGED <<processVars, data, mainVars, result>>

\* one turn of `for page in reader.pages`: the page's text is appended, or
\* the page is skipped; an exception of the iteration itself reaches the
\* outer handler
PdfPage ==
  /\ pc = "pages"
  /\ page < Len(OpenReader(pypdf).value)
  /\ IF pypdf.broken = page + 1
     THEN /\ pc' = "tier2"
          /\ printable' = <<>>
          /\ run' = <<>>
          /\ pos' = 0
          /\ UNCHANGED <<chunks, page>>
     ELSE /\ chunks' = PageChunks(chunks, OpenReader(pypdf).value[page + 1])
          /\ page' = page + 1
          /\ UNCHANGED <<pc, printable, run, pos>>
  /\ UNCHANGED <<processVars, data, mainVars, result>>

\* the loop is over: return '\n'.join(chunks).strip()
PdfTier1Return ==
  /\ pc = "pages"
  /\ page = Len(OpenReader(pypdf).value)
  /\ result' = Ok(Tier1Result(chunks))
  /\ pc' = "returned"
  /\ UNCHANGED <<processVars, data, mainVars, pdfVars>>

\* the Tier 2 scan: the loop over data, the last run, and
\* return ' '.join(printable[:400]).strip()
PdfTier2 ==
  /\ pc = "tier2"
  /\ run' = ScanBytes(data.bytes).run
  /\ printable' = Flush(ScanBytes(data.bytes).printable, run')
  /\ pos' = Len(data.bytes)
  /\ result' = Ok(Tier2Result(printable'))
  /\ pc' = "returned"
  /\ UNCHANGED <<processVars, data, mainVars, chunks, page>>

NextPdf ==
  \/ PdfEmpty
  \/ PdfOpenReader
  \/ PdfPage
  \/ PdfTier1Return
  \/ PdfTier2

(***************************************************************************)
(* extract_pdf called without a working library on payloads of at most     *)
(* MaxSegs segments (a run of at most MaxRunLen printable bytes, ended or  *)
(* not by a non-printable byte), on the 10 + 1 + 4 byte example and on     *)
(* payloads of about MaxFragments runs; and on two short payloads with     *)
(* every library of at most MaxPages pages.                                *)
(***************************************************************************)
Segment(fill, n, sep, ended) ==
  [k \in 1..n |-> fill] \o (IF ended THEN <<sep>> ELSE <<>>)

SmallPayloads ==
  UNION {{ConcatRange([k \in 1..m |-> Segment(fill, lens[k], sep, ends[k])], 1, m) :
            fill \in {PrintableLo, PrintableHi},
            sep \in {PrintableLo - 1, PrintableHi + 1, 0, 255},
            lens \in [1..m -> 0..MaxRunLen], ends \in [1..m -> BOOLEAN]} :
         m \in 0..MaxSegs}

\* ten 'A', a NUL, four 'B'
ExamplePayload ==
  [k \in 1..15 |-> IF k <= 10 THEN 65 ELSE IF k = 11 THEN 0 ELSE 66]

\* the k-th run of a large payload: k in base 3 over 'A', 'B', 'C'
Fragment(k) ==
  <<65 + ((k \div 243) % 3), 65 + ((k \div 81) % 3), 65 + ((k \div 27) % 3),
    65 + ((k \div 9) % 3), 65 + ((k \div 3) % 3), 65 + (k % 3)>>

\* Fragment(1), ..., Fragment(n), each ended by a line feed
LargePayload(n) ==
  [p \in 1..(7 * n) |->
     IF p % 7 = 0 THEN 10 ELSE Fragment((p - 1) \div 7 + 1)[p % 7]]

LargeCounts == {MaxFragments, MaxFragments + 1, MaxFragments + 2}

\* "%PDF" and "%PDF-1\n"
ShortPayloads == {<<37, 80, 68, 70>>, <<37, 80, 68, 70, 45, 49, 10>>}

\* what page i's extract_text() does: None, a letter, the letter in
\* whitespace, an exception
PageOutcome(i, mode) ==
  IF mode = 0 THEN Ok(<<>>)
  ELSE IF mode = 1 THEN Ok(<<111 + i>>)
  ELSE IF mode = 2 THEN Ok(<<10, 111 + i, 32>>)
  ELSE Raise("ValueError")

WorkingLibs ==
  UNION {{PdfLib(TRUE, "ok", [i \in 1..n |-> PageOutcome(i, modes[i])], broken) :
            modes \in [1..n -> 0..3], broken \in 0..n} :
         n \in 0..MaxPages}

PdfInputs ==
  ({BytesData(b) : b \in SmallPayloads \cup {ExamplePayload}
                         \cup {LargePayload(n) : n \in LargeCounts}}
     \X {NoLib})
  \cup ({BytesData(b) : b \in ShortPayloads \cup {ExamplePayload}}
          \X ({BadReader} \cup WorkingLibs))

InitPdf ==
  /\ pc = "extract_pdf"
  /\ \E input \in PdfInputs : data = input[1] /\ pypdf = input[2]
  /\ Idle({"data", "pypdf"})

SpecPdf == InitPdf /\ [][NextPdf]_vars

(***************************************************************************)
(* main, statement by statement.  An exception that reaches main ends the  *)
(* process with a traceback and status 1.                                  *)
(***************************************************************************)
Crash ==
  /\ pc' = "exited"
  /\ exitcode' = 1
  /\ UNCHANGED <<stdout, text>>

\* mime = ...; data = read_stdin()
MainReadInput ==
  /\ pc = "main"
  /\ mime' = MimeArg(argv)
  /\ calls' = Append(calls, "read_stdin")
  /\ IF read_stdin(stdin).ok
     THEN /\ data' = BytesData(read_stdin(stdin).value)
          /\ pc' = "dispatch"
          /\ UNCHANGED <<text, stdout, exitcode>>
     ELSE Crash /\ UNCHANGED data
  /\ UNCHANGED <<processVars, pdfVars, result>>

\* text = extract_docx(data)
MainDocx ==
  /\ pc = "dispatch"
  /\ Route(mime) = "extract_docx"
  /\ calls' = Append(calls, "extract_docx")
  /\ IF extract_docx(data).ok
     THEN /\ text' = extract_docx(data).value
          /\ pc' = "write"
          /\ UNCHANGED <<stdout, exitcode>>
     ELSE Crash
  /\ UNCHANGED <<processVars, data, mime, pdfVars, result>>

\* text = extract_pdf(data): the call
MainPdf ==
  /\ pc = "dispatch"
  /\ Route(mime) = "extract_pdf"
  /\ calls' = Append(calls, "extract_pdf")
  /\ pc' = "extract_pdf"
  /\ UNCHANGED <<processVars, data, mime, text, stdout, exitcode, pdfVars, result>>

\* text = extract_pdf(data): the assignment of what it returned
MainPdfReturned ==
  /\ pc = "returned"
  /\ text' = result.value
  /\ pc' = "write"
  /\ UNCHANGED <<processVars, data, mime, stdout, exitcode, calls, pdfVars, result>>

\* text = ''
MainElse ==
  /\ pc = "dispatch"
  /\ Route(mime) = "none"
  /\ text' = <<>>
  /\ pc' = "write"
  /\ UNCHANGED <<processVars, data, mime, stdout, exitcode, calls, pdfVars, result>>

\* sys.stdout.write(json.dumps({'text': text}, ensure_ascii=False))
MainWrite ==
  /\ pc = "write"
  /\ stdout' = Append(stdout, JsonDumps(text))
  /\ exitcode' = 0
  /\ pc' = "exited"
  /\ UNCHANGED <<processVars, data, mime, text, calls, pdfVars, result>>

NextMain ==
  \/ MainReadInput
  \/ MainDocx
  \/ MainPdf
  \/ MainPdfReturned
  \/ MainElse
  \/ MainWrite
  \/ NextPdf

(***************************************************************************)
(* main called with and without a MIME argument, on standard inputs that   *)
(* are empty, ill-formed, and the base64 of short payloads.                *)
(***************************************************************************)
B64Char(v) == CHOOSE c \in 43..122 : B64Value(c) = v

\* the k-th group of four characters of the encoding of bytes b
B64Group(b, k) ==
  LET n  == Len(b) - 3 * (k - 1)
      b1 == b[3 * k - 2]
      b2 == IF n >= 2 THEN b[3 * k - 1] ELSE 0
      b3 == IF n >= 3 THEN b[3 * k] ELSE 0
  IN  <<B64Char(b1 \div 4),
        B64Char((b1 % 4) * 16 + b2 \div 16),
        IF n >= 2 THEN B64Char((b2 % 16) * 4 + b3 \div 64) ELSE 61,
        IF n >= 3 THEN B64Char(b3 % 64) ELSE 61>>

\* base64.b64encode(b), what the caller of the program writes to its stdin
B64Encode(b) ==
  ConcatRange([k \in 1..((Len(b) + 2) \div 3) |-> B64Group(b, k)],
              1, (Len(b) + 2) \div 3)

MimeSamples == {DOCX_MIME, PDF_MIME, "", "text/plain", "application/pdf ",
                "APPLICATION/PDF", "application/msword"}

MainArgvs == {<<"extract_docs.py">>}
             \cup {<<"extract_docs.py", m>> : m \in MimeSamples}
             \cup {<<"extract_docs.py", PDF_MIME, DOCX_MIME>>}

MainStdins ==
  {<<>>, <<32, 10>>, <<33, 33, 33>>, <<89, 81, 61>>, <<89, 81, 61, 61, 33>>, <<233>>}
  \cup {B64Encode(b) : b \in ShortPayloads \cup {ExamplePayload, EmptyZipBytes}}
  \cup {<<32>> \o B64Encode(ExamplePayload) \o <<10>>}

MainLibs ==
  {NoLib, BadReader,
   PdfLib(TRUE, "ok", <<>>, 0),
   PdfLib(TRUE, "ok", <<Ok(<<80, 34>>), Raise("ValueError"), Ok(<<92, 233>>)>>, 0),
   PdfLib(TRUE, "ok", <<Ok(<<80>>), Ok(<<81>>)>>, 2)}

InitMain ==
  /\ pc = "main"
  /\ argv \in MainArgvs
  /\ stdin \in MainStdins
  /\ pypdf \in MainLibs
  /\ Idle({"argv", "stdin", "pypdf"})

SpecMain == InitMain /\ [][NextMain]_vars

(***************************************************************************)
(* The program run as the script it is: the interpreter compiles the file, *)
(* and runs main only if that succeeds; a SyntaxError ends the process     *)
(* with a traceback on standard error and status 1.                        *)
(***************************************************************************)
Launch ==
  /\ pc = "launch"
  /\ IF Compiles
     THEN /\ pc' = "main"
          /\ UNCHANGED exitcode
     ELSE /\ pc' = "exited"
          /\ exitcode' = 1
  /\ UNCHANGED <<processVars, data, mime, text, stdout, calls, pdfVars, result>>

InitRun ==
  /\ pc = "launch"
  /\ argv \in MainArgvs
  /\ stdin \in MainStdins
  /\ pypdf \in MainLibs
  /\ Idle({"argv", "stdin", "pypdf"})

NextRun == Launch
SpecRun == InitRun /\ [][NextRun]_vars

(***************************************************************************)
(* What the claims speak of, stated on the inputs and not on the code.     *)
(***************************************************************************)
Range(f) == {f[k] : k \in DOMAIN f}

\* {"text": ""}
EmptyTextJson == <<123, 34, 116, 101, 120, 116, 34, 58, 32, 34, 34, 125>>

\* a JSON string's characters from position k on, up to the closing quote
\* at position last
RECURSIVE JsonCharsFrom(_, _, _)
JsonCharsFrom(s, k, last) ==
  IF k = last THEN s[k] = 34
  ELSE IF k > last \/ s[k] < 32 \/ s[k] = 34 THEN FALSE
  ELSE IF s[k] # 92 THEN JsonCharsFrom(s, k + 1, last)
  ELSE IF k + 1 >= last THEN FALSE
  ELSE IF s[k + 1] \in {34, 92, 47, 98, 102, 110, 114, 116}
       THEN JsonCharsFrom(s, k + 2, last)
  ELSE IF s[k + 1] = 117 /\ k + 5 < last
          /\ \A j \in (k + 2)..(k + 5) :
               s[j] \in (48..57) \cup (65..70) \cup (97..102)
       THEN JsonCharsFrom(s, k + 6, last)
  ELSE FALSE

\* s is the JSON text of an object with the one member "text", a string
IsTextJson(s) ==
  /\ Len(s) >= Len(EmptyTextJson)
  /\ SubSeq(s, 1, 10) = SubSeq(EmptyTextJson, 1, 10)
  /\ s[Len(s)] = 125
  /\ JsonCharsFrom(s, 11, Len(s) - 1)

\* the MIME type the process was given: its first argument, or ''
GivenMime == IF Len(argv) > 1 THEN argv[2] ELSE ""

\* s is base64: groups of four characters of the alphabet, the last group
\* ending in at most two '='
IsValidBase64(s) ==
  /\ Len(s) % 4 = 0
  /\ \A k \in 1..Len(s) :
       \/ s[k] \in (65..90) \cup (97..122) \cup (48..57) \cup {43, 47}
       \/ /\ s[k] = 61
          /\ k >= Len(s) - 1
          /\ k > 2
          /\ \A j \in k..Len(s) : s[j] = 61

\* the archive's word/document.xml
HasDocument(d) == d.kind = "zip" /\ \E e \in d.entries : e.name = "word/document.xml"
Document(d) == (CHOOSE e \in d.entries : e.name = "word/document.xml").content

\* the XML text is well-formed: one root, tags nested, prefixes declared
IsWellFormed(xml) ==
  /\ IsShape([k \in 1..Len(xml.tokens) |-> xml.tokens[k].op])
  /\ \A k \in 1..Len(xml.tokens) :
       xml.tokens[k].prefix = "" \/ \E b \in xml.nsmap : b.prefix = xml.tokens[k].prefix

IsWordRun(tok)   == tok.op = "open" /\ tok.prefix = "w" /\ tok.local = <<"t">>
IsNamedT(tok)    == tok.op = "open" /\ tok.local = <<"t">>
HasText(tok)     == tok.text # <<>>
IsWordRunWithText(tok) == IsWordRun(tok) /\ HasText(tok)
IsNamedTWithText(tok)  == IsNamedT(tok) /\ HasText(tok)
TextsOf(toks) == [k \in 1..Len(toks) |-> toks[k].text]

\* every element named t of the text is a <w:t>
OnlyWordRuns(xml) == \A k \in 1..Len(xml.tokens) :
                       IsNamedT(xml.tokens[k]) => IsWordRun(xml.tokens[k])

\* the maximal runs of bytes in [32, 126] of length at least 6, in order
RunStartsAt(d, k) ==
  /\ d[k] \in 32..126
  /\ k = 1 \/ d[k - 1] \notin 32..126
RunEnd(d, k) ==
  CHOOSE j \in k..Len(d) :
    /\ \A m \in k..j : d[m] \in 32..126
    /\ j = Len(d) \/ d[j + 1] \notin 32..126
QualifyingRuns(d) ==
  LET Qualifies(k) == RunStartsAt(d, k) /\ RunEnd(d, k) - k + 1 >= 6
      starts == SelectSeq([k \in 1..Len(d) |-> k], Qualifies)
  IN  [n \in 1..Len(starts) |-> SubSeq(d, starts[n], RunEnd(d, starts[n]))]

\* the first 400 qualifying runs, joined with single spaces and trimmed
Tier2Expected(d) ==
  LET runs == QualifyingRuns(d)
  IN  Strip(Join(SubSeq(runs, 1, IF Len(runs) > 400 THEN 400 ELSE Len(runs)),
                 <<32>>))

\* extract_pdf has returned from a call that ...
PdfReturned == pc = "returned" /\ ~(data.kind = "bytes" /\ data.bytes = <<>>)
\* ... found no library or no reader
NoReader == PdfReturned /\ (~pypdf.installed \/ pypdf.reader # "ok")
\* ... lost the reader while iterating over its pages
LostReader == PdfReturned /\ pypdf.installed /\ pypdf.reader = "ok" /\ pypdf.broken > 0
\* ... ran Tier 1 to completion
Tier1Completed ==
  PdfReturned /\ pypdf.installed /\ pypdf.reader = "ok" /\ pypdf.broken = 0

TextsOfPages(ps) == [k \in 1..Len(ps) |-> ps[k].value]
TextOrEmpty(extracted) == IF extracted.ok THEN extracted.value ELSE <<>>
Extracted(extracted) == extracted.ok

(***************************************************************************)
(* C1.  Running the program ends by writing exactly one JSON object with   *)
(* the single string member "text" to standard output, without an          *)
(* exception reaching the caller, whatever the MIME argument and the       *)
(* standard input are.                                                     *)
(***************************************************************************)
C1_RunWritesOneTextJson ==
  pc = "exited" =>
    /\ exitcode = 0
    /\ Len(stdout) = 1
    /\ IsTextJson(stdout[1])

\* the same of main alone, were it called (checked under SpecMain)
MainWritesOneTextJson ==
  pc = "exited" =>
    /\ exitcode = 0
    /\ Len(stdout) = 1
    /\ IsTextJson(stdout[1])
    /\ stdout[1] = JsonDumps(text)

(***************************************************************************)
(* C2.  For every MIME type other than the DOCX and the PDF one, the empty *)
(* string of a missing argument included, main writes {"text": ""}         *)
(* whatever the input is, and calls neither extract_docx nor extract_pdf.  *)
(***************************************************************************)
C2_UnrecognizedMimeYieldsEmpty ==
  GivenMime \notin {"application/vnd.openxmlformats-officedocument.wordprocessingml.document",
                    "application/pdf"} =>
    /\ "extract_docx" \notin Range(calls)
    /\ "extract_pdf" \notin Range(calls)
    /\ pc \notin {"extract_pdf", "pages", "tier2", "returned"}
    /\ pc = "exited" => stdout = <<EmptyTextJson>> /\ exitcode = 0

\* witness: a MIME type one space off the PDF one, on a payload that holds
\* a printable run: nothing is extracted
C2_Witness ==
  /\ pc = "exited"
  /\ GivenMime = "application/pdf "
  /\ data.bytes = ExamplePayload
  /\ calls = <<"read_stdin">>
  /\ stdout = <<EmptyTextJson>>

(***************************************************************************)
(* C3.  read_stdin returns the empty byte sequence, and raises nothing,    *)
(* for every standard input that is not valid base64.                      *)
(***************************************************************************)
C3_InvalidBase64YieldsEmpty ==
  (pc = "returned" /\ ~IsValidBase64(Strip(stdin))) => result = Ok(<<>>)

(***************************************************************************)
(* C4.  Of an archive whose word/document.xml is well-formed and whose     *)
(* elements named t are its <w:t> runs, extract_docx returns the texts of  *)
(* the runs in document order, joined with single spaces and trimmed; a    *)
(* run without text adds nothing, no separator either.                     *)
(***************************************************************************)
C4_DocxRoundTrip ==
  (/\ pc = "returned"
   /\ HasDocument(data)
   /\ IsWellFormed(Document(data))
   /\ OnlyWordRuns(Document(data))) =>
    result = Ok(Strip(Join(TextsOf(SelectSeq(Document(data).tokens,
                                             IsWordRunWithText)), <<32>>)))

\* witness: three runs, the first nested in the root, one of them without
\* text, spaces around a text: "a", none, " c " give "a  c"
C4_Witness ==
  /\ pc = "returned"
  /\ HasDocument(data)
  /\ IsWellFormed(Document(data))
  /\ OnlyWordRuns(Document(data))
  /\ Len(SelectSeq(Document(data).tokens, IsWordRun)) = 3
  /\ Document(data).tokens[2].op = "open"
  /\ result = Ok(<<97, 32, 32, 99>>)

(***************************************************************************)
(* C5.  extract_docx returns the empty string, and raises nothing, for     *)
(* bytes that are no ZIP archive, for an archive without an entry named    *)
(* word/document.xml, and for an archive whose word/document.xml is not    *)
(* well-formed XML.                                                        *)
(***************************************************************************)
C5_DocxFailuresYieldEmpty ==
  (/\ pc = "returned"
   /\ \/ data.kind = "bytes" /\ data.bytes # EmptyZipBytes
      \/ ~HasDocument(data)
      \/ ~IsWellFormed(Document(data))) =>
    result = Ok(<<>>)

\* witness: an archive that holds word/styles.xml (with a <w:t> of its
\* own) and no word/document.xml
C5_Witness ==
  /\ pc = "returned"
  /\ data.kind = "zip"
  /\ data.entries # {}
  /\ ~HasDocument(data)
  /\ result = Ok(<<>>)

(***************************************************************************)
(* C6.  The Tier 2 scan records a maximal run of bytes in [32, 126] as a   *)
(* fragment exactly when it is at least 6 bytes long, whether a            *)
(* non-printable byte or the end of the input ends it, and records it as   *)
(* its bytes; ten printable bytes, a non-printable one and four printable  *)
(* ones give the ten as the only fragment.                                 *)
(***************************************************************************)
C6_Tier2RecordsRunsOfSix ==
  (NoReader \/ LostReader) =>
    /\ printable = QualifyingRuns(data.bytes)
    /\ data.bytes = ExamplePayload =>
         printable = <<<<65, 65, 65, 65, 65, 65, 65, 65, 65, 65>>>>

\* witness: a run of exactly 6 ended by the end of the input, after a run
\* of 5 ended by a non-printable byte
C6_Witness ==
  /\ NoReader
  /\ data.bytes = <<126, 126, 126, 126, 126, 127, 126, 126, 126, 126, 126, 126>>
  /\ printable = <<<<126, 126, 126, 126, 126, 126>>>>

(***************************************************************************)
(* C7.  The Tier 2 result is the first 400 qualifying runs in scan order,  *)
(* joined with single spaces (and trimmed), and none of the later ones;    *)
(* all of them when there are 400 or fewer.                                *)
(***************************************************************************)
C7_Tier2KeepsFirst400 ==
  (NoReader \/ LostReader) =>
    /\ result = Ok(Tier2Expected(data.bytes))
    /\ \A n \in LargeCounts :
         data.bytes = LargePayload(n) =>
           result.value = Join([k \in 1..(IF n > 400 THEN 400 ELSE n) |-> Fragment(k)],
                               <<32>>)

\* witness: 401 runs scanned and recorded, the result the 400 first
C7_Witness ==
  /\ NoReader
  /\ data.bytes = LargePayload(401)
  /\ Len(printable) = 401
  /\ Len(result.value) = 400 * 7 - 1
  /\ SubSeq(result.value, 400 * 7 - 6, 400 * 7 - 1) = Fragment(400)

(***************************************************************************)
(* C8.  extract_docx collects the text of every element whose local name   *)
(* is t and whose text is not empty, whatever its namespace and also when  *)
(* it has none, and of no other element.                                   *)
(***************************************************************************)
C8_LocalNameTCollected ==
  (/\ pc = "returned"
   /\ HasDocument(data)
   /\ IsWellFormed(Document(data))) =>
    result = Ok(Strip(Join(TextsOf(SelectSeq(Document(data).tokens,
                                             IsNamedTWithText)), <<32>>)))

(***************************************************************************)
(* C9.  extract_pdf on bytes that are not empty: without the library or    *)
(* without a reader it raises nothing and returns what the Tier 2          *)
(* heuristic gives on the same bytes; when Tier 1 runs to completion its   *)
(* result is returned and Tier 2 does not run, even if that result is      *)
(* empty; page texts and fragments are never mixed.                        *)
(***************************************************************************)
C9_TierSelection ==
  /\ (NoReader \/ LostReader) =>
       result = Ok(Tier2Expected(data.bytes))
  /\ Tier1Completed =>
       /\ pos = 0 /\ printable = <<>> /\ run = <<>>
       /\ result.ok
       /\ \A k \in 1..Len(result.value) :
            \E i \in 1..Len(pypdf.pages) :
              result.value[k] \in Range(pypdf.pages[i].value) \cup {10}

\* witness: Tier 1 completes with an empty result on bytes in which Tier 2
\* would find "%PDF-1"
C9_Witness ==
  /\ Tier1Completed
  /\ Tier2Expected(data.bytes) = <<37, 80, 68, 70, 45, 49>>
  /\ Len(pypdf.pages) = 2
  /\ result = Ok(<<>>)

(***************************************************************************)
(* C10, as claimed.  A page whose extraction fails is treated as an empty  *)
(* page: the result is the pages' texts, the failed page's empty, joined   *)
(* with newlines and trimmed.                                              *)
(***************************************************************************)
C10_FailedPageTreatedAsEmpty ==
  Tier1Completed =>
    result = Ok(Strip(Join([i \in 1..Len(pypdf.pages) |->
                              TextOrEmpty(pypdf.pages[i])], <<10>>)))

(***************************************************************************)
(* C10, amended.  A page whose extraction fails is skipped: it adds no     *)
(* text and no separator.  The result is the texts of the other pages, in  *)
(* page order, joined with newlines and trimmed.                           *)
(***************************************************************************)
C10_FailedPageSkipped ==
  Tier1Completed =>
    result = Ok(Strip(Join(TextsOfPages(SelectSeq(pypdf.pages, Extracted)), <<10>>)))

\* witness: of three pages the second fails: "p", failure, "r" give "p\nr"
C10_Witness ==
  /\ Tier1Completed
  /\ Len(pypdf.pages) = 3
  /\ ~pypdf.pages[2].ok
  /\ result = Ok(<<112, 10, 114>>)

====
